---------------------------- MODULE Spec2Model ----------------------------
(***************************************************************************)
(* A model of go-bench (src/main.go): the goroutine-count sweep, the       *)
(* fixed-duration trial runner with its batched atomic counter, and the    *)
(* report that picks the best configuration.                               *)
(*                                                                         *)
(* benchmarkCPU and benchmarkMemory have the same shape and differ only in *)
(* the batch threshold and in the number of operations one pass of the     *)
(* worker loop performs; the trial actions below are parameterised by the  *)
(* workload of the running trial.                                          *)
(*                                                                         *)
(* Not modelled: the progress goroutine (main.go 149-158, 228-237), which  *)
(* only receives from the ticker and from the stop channel, touches no     *)
(* state of the trial and is not counted by the wait group; and the text   *)
(* printed (formatNumber, the table).  Counters stay far below 2^64, so    *)
(* uint64 wrap-around does not occur within the bounds.                    *)
(***************************************************************************)
EXTENDS Integers, Sequences, FiniteSets

\* ------------------------------------------------------------- bounds
\* Largest host core count of the whole-program specification.
MaxCPU == 1
\* Kernel bursts (see WorkerDefault) one run may perform in total.
MaxBursts == 2
\* Core counts and configured maxima of the sweep-generator specification.
MaxCores == 9
MaxRoutinesCfg == 20
\* Result sets of the report specification.
MaxResults == 3
MaxGoroutines == 3
MaxTotalOps == 2

\* ------------------------------------------------- program constants
\* main.go 140-142: the CPU worker's batch threshold.
CPUBatch == 10000
\* main.go 219-221: the memory worker's batch threshold.
MemBatch == 1000
\* main.go 209: sizes := []int{64, 256, 1024, 4096}; one allocation each.
MemSizes == <<64, 256, 1024, 4096>>

\* Durations given with -d, in seconds (main.go 51); 10 is the default.
Durations == {-1, 0, 2}
\* Values given with -t (main.go 52).
TestTypes == {"cpu", "memory", "both", "disk"}

VARIABLES
    numCPU,         \* runtime.NumCPU()
    durationSecs,   \* *duration: b.duration = durationSecs * time.Second
    testType,       \* b.testType
    maxRoutines,    \* b.maxRoutines
    mpc,            \* position of the main goroutine
    workload,       \* "cpu" in runCPUBenchmark, "memory" in runMemoryBenchmark
    testCases,      \* testCases of the running run*Benchmark
    idx,            \* position of its range loop (1-based)
    results,        \* its local results slice
    cpuResults,     \* main's cpuResults
    memoryResults,  \* main's memoryResults
    numGoroutines,  \* argument of the running benchmarkCPU / benchmarkMemory
    launched,       \* i of its launch loop: workers started so far
    totalOps,       \* totalOps / totalAllocs, the shared counter
    stop,           \* TRUE once close(stop) has run
    wg,             \* the WaitGroup counter
    wpc,            \* position of each worker goroutine
    localOps,       \* localOps / localAllocs of each worker
    finalOps,       \* finalOps / finalAllocs
    report,         \* what printResults reported, per workload
    opsDone,        \* history: kernel operations each worker has completed
    bursts,         \* history: kernel bursts performed in this run
    trialsRun       \* history: worker counts of the trials started, per workload

vars == <<numCPU, durationSecs, testType, maxRoutines, mpc, workload, testCases,
          idx, results, cpuResults, memoryResults, numGoroutines, launched,
          totalOps, stop, wg, wpc, localOps, finalOps, report, opsDone, bursts,
          trialsRun>>

cfgVars == <<numCPU, durationSecs, testType, maxRoutines>>
trialVars == <<numGoroutines, launched, totalOps, stop, wg, wpc, localOps,
               finalOps, opsDone>>

\* Workers of the largest trial the whole-program specification can run.
Workers == 1..(2 * MaxCPU)

RECURSIVE SumTo(_, _)
SumTo(f, n) == IF n = 0 THEN 0 ELSE f[n] + SumTo(f, n - 1)

\* ------------------------------------------------------------ float64
\* A float64 is NaN, +Inf/-Inf, or a rational n/d with d > 0.  The values
\* of the model are small, so float64 holds them exactly; -0.0 is
\* represented as 0 (the two compare equal).
NaN == [k |-> "nan", n |-> 0, d |-> 1]
Inf(s) == [k |-> "inf", n |-> s, d |-> 1]
Num(n, d) == [k |-> "num", n |-> n, d |-> d]
\* float64(i)
FromInt(i) == Num(i, 1)
Sign(i) == IF i > 0 THEN 1 ELSE IF i < 0 THEN -1 ELSE 0

\* a > b on float64: false when either side is NaN.
FGt(a, b) ==
    IF a.k = "nan" \/ b.k = "nan" THEN FALSE
    ELSE IF a.k = "inf" THEN a.n = 1 /\ ~(b.k = "inf" /\ b.n = 1)
    ELSE IF b.k = "inf" THEN b.n = -1
    ELSE a.n * b.d > b.n * a.d

\* a / b on float64 (IEEE 754): x/0 is an infinity, 0/0 and Inf/Inf are NaN.
FDiv(a, b) ==
    IF a.k = "nan" \/ b.k = "nan" THEN NaN
    ELSE IF a.k = "inf" THEN
        IF b.k = "inf" THEN NaN
        ELSE Inf(IF b.n < 0 THEN -a.n ELSE a.n)
    ELSE IF b.k = "inf" THEN Num(0, 1)
    ELSE IF b.n = 0 THEN (IF a.n = 0 THEN NaN ELSE Inf(Sign(a.n)))
    ELSE Num(Sign(b.n) * a.n * b.d, Sign(b.n) * b.n * a.d)

\* The zero value of BenchmarkResult (main.go 14-19).
ZeroResult ==
    [Goroutines |-> 0, OpsPerSecond |-> FromInt(0), MemoryAllocs |-> 0,
     TotalOps |-> 0]

\* -------------------------------------------------------- getTestCases
\* Mutant of getTestCases: the 2x entry only when the maximum is above it.
getTestCasesStrictMax(cpuCount, maxR) ==
    LET t1 == <<1>>
        t2 == IF cpuCount > 1 THEN Append(t1, cpuCount \div 2) ELSE t1
        t3 == Append(t2, cpuCount)
        upperLimit == cpuCount + (cpuCount \div 2)
        t4 == IF upperLimit > cpuCount THEN Append(t3, upperLimit) ELSE t3
    IN  IF maxR > cpuCount * 2 THEN Append(t4, cpuCount * 2) ELSE t4

\* Mutant of getTestCases: the 2x entry whatever the configured maximum.
getTestCasesNoMaxCheck(cpuCount, maxR) ==
    LET t1 == <<1>>
        t2 == IF cpuCount > 1 THEN Append(t1, cpuCount \div 2) ELSE t1
        t3 == Append(t2, cpuCount)
        upperLimit == cpuCount + (cpuCount \div 2)
        t4 == IF upperLimit > cpuCount THEN Append(t3, upperLimit) ELSE t3
    IN  Append(t4, cpuCount * 2)

\* main.go 254-274.
getTestCases(cpuCount, maxR) ==
    LET t1 == <<1>>
        t2 == IF cpuCount > 1 THEN Append(t1, cpuCount \div 2) ELSE t1
        t3 == Append(t2, cpuCount)
        upperLimit == cpuCount + (cpuCount \div 2)
        t4 == IF upperLimit > cpuCount THEN Append(t3, upperLimit) ELSE t3
    IN  IF maxR >= cpuCount * 2 THEN Append(t4, cpuCount * 2) ELSE t4


\* -------------------------------------------------------- printResults
\* main.go 298: result.OpsPerSecond > bestPerformance
IsBetter(result, bestPerformance) == FGt(result.OpsPerSecond, bestPerformance)

\* main.go 290-302: one pass of the range loop over results.
PrintLoopBody(acc, result) ==
    LET single == IF result.Goroutines = 1 THEN result ELSE acc.single
    IN  IF IsBetter(result, acc.bestPerformance)
        THEN [best |-> result, single |-> single,
              bestPerformance |-> result.OpsPerSecond]
        ELSE [best |-> acc.best, single |-> single,
              bestPerformance |-> acc.bestPerformance]

\* main.go 286-302: the loop, from the zero-valued locals.
RECURSIVE PrintLoop(_, _)
PrintLoop(rs, i) ==
    IF i = 0
    THEN [best |-> ZeroResult, single |-> ZeroResult,
          bestPerformance |-> FromInt(0)]
    ELSE PrintLoopBody(PrintLoop(rs, i - 1), rs[i])

\* Mutant of SpeedupShown: the speedup is printed whatever the baseline.
SpeedupAlwaysShown(single) == TRUE

\* main.go 310: if singleGoroutineResult.Goroutines == 1
SpeedupShown(single) == single.Goroutines = 1

NoReport ==
    [printed |-> FALSE, best |-> ZeroResult, single |-> ZeroResult,
     cpuRatio |-> NaN, speedupShown |-> FALSE, speedup |-> NaN]

\* main.go 276-315: what printResults reports for a result set; nothing
\* when the set is empty (277-279).  speedup is meaningful only when
\* speedupShown.
printResults(rs, cpus) ==
    IF Len(rs) = 0 THEN NoReport
    ELSE LET acc == PrintLoop(rs, Len(rs))
         IN  [printed |-> TRUE,
              best |-> acc.best,
              single |-> acc.single,
              cpuRatio |-> FDiv(FromInt(acc.best.Goroutines), FromInt(cpus)),
              speedupShown |-> SpeedupShown(acc.single),
              speedup |-> IF SpeedupShown(acc.single)
                          THEN FDiv(acc.best.OpsPerSecond,
                                    acc.single.OpsPerSecond)
                          ELSE NaN]

\* ----------------------------------------------------------- the trial
\* The batch threshold of the running workload (main.go 140, 219).
Batch == IF workload = "cpu" THEN CPUBatch ELSE MemBatch
\* Operations one pass of the worker loop's default branch completes:
\* localOps++ (138), or localAllocs++ once per size (210-217).
OpsPerPass == IF workload = "cpu" THEN 1 ELSE Len(MemSizes)
\* Passes a burst may consist of: one, or as many as bring a fresh local
\* counter one pass short of the threshold.
BurstPasses == {1, (Batch \div OpsPerPass) - 1}

NoTrial ==
    /\ numGoroutines = 0 /\ launched = 0 /\ totalOps = 0 /\ stop = FALSE
    /\ wg = 0 /\ finalOps = 0
    /\ wpc = [w \in Workers |-> "none"]
    /\ localOps = [w \in Workers |-> 0]
    /\ opsDone = [w \in Workers |-> 0]

\* main.go 55-68: the state main builds from the flags.
Init ==
    /\ numCPU \in 1..MaxCPU
    /\ durationSecs \in Durations
    /\ testType \in TestTypes
    /\ maxRoutines = numCPU * 2
    /\ mpc = "main"
    /\ workload = "cpu"
    /\ testCases = <<>> /\ idx = 1 /\ results = <<>>
    /\ cpuResults = <<>> /\ memoryResults = <<>>
    /\ NoTrial
    /\ report = [t \in {"CPU", "Memory"} |-> NoReport]
    /\ bursts = 0
    /\ trialsRun = [t \in {"cpu", "memory"} |-> <<>>]

\* main.go 73-77 and 97-99: enter runCPUBenchmark, or skip it.
MainCPU ==
    /\ mpc = "main"
    /\ IF testType = "cpu" \/ testType = "both"
       THEN /\ mpc' = "loop"
            /\ workload' = "cpu"
            /\ testCases' = getTestCases(numCPU, maxRoutines)
            /\ idx' = 1
            /\ results' = <<>>
       ELSE /\ mpc' = "memory"
            /\ UNCHANGED <<workload, testCases, idx, results>>
    /\ UNCHANGED <<cfgVars, trialVars, cpuResults, memoryResults, report,
                   bursts, trialsRun>>

\* Mutant of MainMemory: the memory sweep runs whatever the selector.
MainMemoryAlways ==
    /\ mpc = "memory"
    /\ mpc' = "loop"
    /\ workload' = "memory"
    /\ testCases' = getTestCases(numCPU, maxRoutines)
    /\ idx' = 1
    /\ results' = <<>>
    /\ UNCHANGED <<cfgVars, trialVars, cpuResults, memoryResults, report,
                   bursts, trialsRun>>

\* main.go 79-83 and 174-176: enter runMemoryBenchmark, or skip it.
MainMemory ==
    /\ mpc = "memory"
    /\ IF testType = "memory" \/ testType = "both"
       THEN /\ mpc' = "loop"
            /\ workload' = "memory"
            /\ testCases' = getTestCases(numCPU, maxRoutines)
            /\ idx' = 1
            /\ results' = <<>>
       ELSE /\ mpc' = "print"
            /\ UNCHANGED <<workload, testCases, idx, results>>
    /\ UNCHANGED <<cfgVars, trialVars, cpuResults, memoryResults, report,
                   bursts, trialsRun>>

\* main.go 101-103, 113-119 (178-180, 190-196): the range loop takes the
\* next test case and calls benchmarkCPU / benchmarkMemory, whose locals
\* start fresh.
StartTrial ==
    /\ mpc = "loop"
    /\ idx <= Len(testCases)
    /\ mpc' = "launch"
    /\ numGoroutines' = testCases[idx]
    /\ launched' = 0 /\ totalOps' = 0 /\ stop' = FALSE /\ wg' = 0
    /\ finalOps' = 0
    /\ wpc' = [w \in Workers |-> "none"]
    /\ localOps' = [w \in Workers |-> 0]
    /\ opsDone' = [w \in Workers |-> 0]
    /\ trialsRun' = [trialsRun EXCEPT ![workload] = Append(@, testCases[idx])]
    /\ UNCHANGED <<cfgVars, workload, testCases, idx, results, cpuResults,
                   memoryResults, report, bursts>>

\* main.go 110 and 76 (187 and 82): the loop is over; the results go to main.
EndSweep ==
    /\ mpc = "loop"
    /\ idx > Len(testCases)
    /\ IF workload = "cpu"
       THEN /\ cpuResults' = results
            /\ mpc' = "memory"
            /\ UNCHANGED memoryResults
       ELSE /\ memoryResults' = results
            /\ mpc' = "print"
            /\ UNCHANGED cpuResults
    /\ UNCHANGED <<cfgVars, trialVars, workload, testCases, idx, results,
                   report, bursts, trialsRun>>

\* Mutant of Launch: the launch loop stops one worker short.
LaunchOffByOne ==
    /\ mpc = "launch"
    /\ IF launched < numGoroutines - 1
       THEN /\ wg' = wg + 1
            /\ wpc' = [wpc EXCEPT ![launched + 1] = "select"]
            /\ launched' = launched + 1
            /\ mpc' = mpc
       ELSE /\ mpc' = "sleep"
            /\ UNCHANGED <<wg, wpc, launched>>
    /\ UNCHANGED <<cfgVars, workload, testCases, idx, results, cpuResults,
                   memoryResults, numGoroutines, totalOps, stop, localOps,
                   finalOps, report, opsDone, bursts, trialsRun>>

\* main.go 121-147 (198-226): one pass of the launch loop, wg.Add(1) and
\* go func(); the loop ends when i reaches numGoroutines.
Launch ==
    /\ mpc = "launch"
    /\ IF launched < numGoroutines
       THEN /\ wg' = wg + 1
            /\ wpc' = [wpc EXCEPT ![launched + 1] = "select"]
            /\ launched' = launched + 1
            /\ mpc' = mpc
       ELSE /\ mpc' = "sleep"
            /\ UNCHANGED <<wg, wpc, launched>>
    /\ UNCHANGED <<cfgVars, workload, testCases, idx, results, cpuResults,
                   memoryResults, numGoroutines, totalOps, stop, localOps,
                   finalOps, report, opsDone, bursts, trialsRun>>

\* main.go 160 (239): time.Sleep(b.duration) returns; it returns at once
\* when the duration is not positive.
Sleep ==
    /\ mpc = "sleep"
    /\ mpc' = "close"
    /\ UNCHANGED <<cfgVars, trialVars, workload, testCases, idx, results,
                   cpuResults, memoryResults, report, bursts, trialsRun>>

\* main.go 161 (240): close(stop).
CloseStop ==
    /\ mpc = "close"
    /\ stop' = TRUE
    /\ mpc' = "wait"
    /\ UNCHANGED <<cfgVars, workload, testCases, idx, results, cpuResults,
                   memoryResults, numGoroutines, launched, totalOps, wg, wpc,
                   localOps, finalOps, report, opsDone, bursts, trialsRun>>

\* Mutant of WaitReturns: the runner does not wait for the workers.
WaitReturnsAtOnce == TRUE

\* main.go 162 (241): wg.Wait() returns when the counter is zero.
WaitReturns == wg = 0

Wait ==
    /\ mpc = "wait"
    /\ WaitReturns
    /\ mpc' = "load"
    /\ UNCHANGED <<cfgVars, trialVars, workload, testCases, idx, results,
                   cpuResults, memoryResults, report, bursts, trialsRun>>

\* main.go 164 (243): finalOps := atomic.LoadUint64(&totalOps).
Load ==
    /\ mpc = "load"
    /\ finalOps' = totalOps
    /\ mpc' = "return"
    /\ UNCHANGED <<cfgVars, workload, testCases, idx, results, cpuResults,
                   memoryResults, numGoroutines, launched, totalOps, stop, wg,
                   wpc, localOps, report, opsDone, bursts, trialsRun>>

\* main.go 165-171 (244-251): the BenchmarkResult of a trial of g workers
\* that counted ops operations in a trial of secs seconds.
MkResult(g, ops, secs, kind) ==
    [Goroutines |-> g,
     OpsPerSecond |-> FDiv(FromInt(ops), FromInt(secs)),
     MemoryAllocs |-> IF kind = "cpu" THEN 0 ELSE ops,
     TotalOps |-> ops]

TrialResult == MkResult(numGoroutines, finalOps, durationSecs, workload)

\* Mutant of Return: the result replaces the slice instead of extending it.
ReturnKeepsLast ==
    /\ mpc = "return"
    /\ results' = <<TrialResult>>
    /\ idx' = idx + 1
    /\ mpc' = "loop"
    /\ UNCHANGED <<cfgVars, trialVars, workload, testCases, cpuResults,
                   memoryResults, report, bursts, trialsRun>>

\* main.go 165-171 and 104 (244-251 and 181): return the result, append it.
Return ==
    /\ mpc = "return"
    /\ results' = Append(results, TrialResult)
    /\ idx' = idx + 1
    /\ mpc' = "loop"
    /\ UNCHANGED <<cfgVars, trialVars, workload, testCases, cpuResults,
                   memoryResults, report, bursts, trialsRun>>

\* main.go 85-95: print the results (printResults returns at once on an
\* empty slice, and main calls it only on a non-empty one).
PrintAll ==
    /\ mpc = "print"
    /\ report' = [t \in {"CPU", "Memory"} |->
                    LET rs == IF t = "CPU" THEN cpuResults ELSE memoryResults
                    IN  IF Len(rs) > 0 THEN printResults(rs, numCPU)
                        ELSE NoReport]
    /\ mpc' = "exit"
    /\ UNCHANGED <<cfgVars, trialVars, workload, testCases, idx, results,
                   cpuResults, memoryResults, bursts, trialsRun>>

\* ---------------------------------------------------------- the worker
wUnchanged == <<cfgVars, mpc, workload, testCases, idx, results, cpuResults,
                memoryResults, numGoroutines, launched, finalOps, report,
                trialsRun>>

\* main.go 140 (219): localOps%10000 == 0.
BatchReached(l) == l % Batch = 0

\* main.go 127, 131-140 (204, 208-219): the select finds the stop channel
\* open and takes the default branch; the kernel runs, the local counter
\* advances and is tested against the threshold.  A burst is k such passes
\* in a row, of which only the last may bring the local counter to the
\* threshold; the worker is then about to add the batch, and otherwise
\* back at the select.
WorkerDefault(w) ==
    /\ wpc[w] = "select"
    /\ ~stop
    /\ bursts < MaxBursts
    /\ \E k \in BurstPasses :
          /\ localOps[w] + k * OpsPerPass <= Batch
          /\ localOps' = [localOps EXCEPT ![w] = @ + k * OpsPerPass]
          /\ opsDone' = [opsDone EXCEPT ![w] = @ + k * OpsPerPass]
          /\ wpc' = [wpc EXCEPT ![w] =
                        IF BatchReached(localOps[w] + k * OpsPerPass)
                        THEN "add" ELSE "select"]
    /\ bursts' = bursts + 1
    /\ UNCHANGED <<wUnchanged, totalOps, stop, wg>>

\* Mutant of WorkerAdd: the batch added is one short of the threshold.
WorkerAddPartial(w) ==
    /\ wpc[w] = "add"
    /\ totalOps' = totalOps + (Batch - 1)
    /\ wpc' = [wpc EXCEPT ![w] = "sub"]
    /\ UNCHANGED <<wUnchanged, stop, wg, localOps, opsDone, bursts>>

\* main.go 141 (220): atomic.AddUint64(&totalOps, 10000).
WorkerAdd(w) ==
    /\ wpc[w] = "add"
    /\ totalOps' = totalOps + Batch
    /\ wpc' = [wpc EXCEPT ![w] = "sub"]
    /\ UNCHANGED <<wUnchanged, stop, wg, localOps, opsDone, bursts>>

\* Mutant of WorkerSub: the local counter is not taken back after the add.
WorkerSubSkipped(w) ==
    /\ wpc[w] = "sub"
    /\ wpc' = [wpc EXCEPT ![w] = "select"]
    /\ UNCHANGED <<wUnchanged, totalOps, stop, wg, localOps, opsDone, bursts>>

\* main.go 142 (221): localOps -= 10000.
WorkerSub(w) ==
    /\ wpc[w] = "sub"
    /\ localOps' = [localOps EXCEPT ![w] = @ - Batch]
    /\ wpc' = [wpc EXCEPT ![w] = "select"]
    /\ UNCHANGED <<wUnchanged, totalOps, stop, wg, opsDone, bursts>>

\* Mutant of WorkerStop: the stop signal is a value one worker consumes.
WorkerStopConsumes(w) ==
    /\ wpc[w] = "select"
    /\ stop
    /\ stop' = FALSE
    /\ wpc' = [wpc EXCEPT ![w] = "flush"]
    /\ UNCHANGED <<wUnchanged, totalOps, wg, localOps, opsDone, bursts>>

\* main.go 127-128 (204-205): the select receives from the closed channel.
\* A receive from a closed channel does not consume anything.
WorkerStop(w) ==
    /\ wpc[w] = "select"
    /\ stop
    /\ wpc' = [wpc EXCEPT ![w] = "flush"]
    /\ UNCHANGED <<wUnchanged, totalOps, stop, wg, localOps, opsDone, bursts>>

\* Mutant of WorkerFlush: the worker returns without flushing its tail.
WorkerFlushDropsTail(w) ==
    /\ wpc[w] = "flush"
    /\ wpc' = [wpc EXCEPT ![w] = "exit"]
    /\ UNCHANGED <<wUnchanged, totalOps, stop, wg, localOps, opsDone, bursts>>

\* Mutant of WorkerFlush: the worker stores its tail instead of adding it.
WorkerFlushStores(w) ==
    /\ wpc[w] = "flush"
    /\ totalOps' = localOps[w]
    /\ wpc' = [wpc EXCEPT ![w] = "exit"]
    /\ UNCHANGED <<wUnchanged, stop, wg, localOps, opsDone, bursts>>

\* main.go 129 (206): atomic.AddUint64(&totalOps, localOps).
WorkerFlush(w) ==
    /\ wpc[w] = "flush"
    /\ totalOps' = totalOps + localOps[w]
    /\ wpc' = [wpc EXCEPT ![w] = "exit"]
    /\ UNCHANGED <<wUnchanged, stop, wg, localOps, opsDone, bursts>>

\* Mutant of WorkerDone: the deferred function flushes the tail once more.
WorkerDoneFlushesAgain(w) ==
    /\ wpc[w] = "exit"
    /\ totalOps' = totalOps + localOps[w]
    /\ wg' = wg - 1
    /\ wpc' = [wpc EXCEPT ![w] = "done"]
    /\ UNCHANGED <<wUnchanged, stop, localOps, opsDone, bursts>>

\* main.go 130 and 124 (207 and 201): return runs the deferred wg.Done().
WorkerDone(w) ==
    /\ wpc[w] = "exit"
    /\ wg' = wg - 1
    /\ wpc' = [wpc EXCEPT ![w] = "done"]
    /\ UNCHANGED <<wUnchanged, totalOps, stop, localOps, opsDone, bursts>>

Worker(w) ==
    \/ WorkerDefault(w)
    \/ WorkerAdd(w)
    \/ WorkerSub(w)
    \/ WorkerStop(w)
    \/ WorkerFlush(w)
    \/ WorkerDone(w)

Main ==
    \/ MainCPU
    \/ MainMemory
    \/ StartTrial
    \/ EndSweep
    \/ Launch
    \/ Sleep
    \/ CloseStop
    \/ Wait
    \/ Load
    \/ Return
    \/ PrintAll

Next == Main \/ \E w \in Workers : Worker(w)

Spec == Init /\ [][Next]_vars

\* The scheduler runs every goroutine that can take a step: the main
\* goroutine and each worker are scheduled fairly.
Fairness == WF_vars(Main) /\ \A w \in Workers : WF_vars(Worker(w))

SpecFair == Spec /\ Fairness

\* ------------------------------------- getTestCases as a function
\* getTestCases on a Benchmark with any configured maxRoutines.
SweepInit ==
    /\ numCPU \in 1..MaxCores
    /\ maxRoutines \in 1..MaxRoutinesCfg
    /\ durationSecs = 10
    /\ testType = "both"
    /\ mpc = "sweep"
    /\ workload = "cpu"
    /\ testCases = <<>> /\ idx = 1 /\ results = <<>>
    /\ cpuResults = <<>> /\ memoryResults = <<>>
    /\ NoTrial
    /\ report = [t \in {"CPU", "Memory"} |-> NoReport]
    /\ bursts = 0
    /\ trialsRun = [t \in {"cpu", "memory"} |-> <<>>]

\* main.go 99 (176): testCases := b.getTestCases()
CallGetTestCases ==
    /\ mpc = "sweep"
    /\ testCases' = getTestCases(numCPU, maxRoutines)
    /\ mpc' = "swept"
    /\ UNCHANGED <<cfgVars, trialVars, workload, idx, results, cpuResults,
                   memoryResults, report, bursts, trialsRun>>

SpecSweep == SweepInit /\ [][CallGetTestCases]_vars

\* ------------------------------------- printResults as a function
\* The results of trials of up to MaxGoroutines workers that counted up to
\* MaxTotalOps operations.
ResultValues ==
    {MkResult(g, ops, durationSecs, "cpu") :
        g \in 1..MaxGoroutines, ops \in 0..MaxTotalOps}

ReportInit ==
    /\ numCPU \in 1..MaxCPU
    /\ maxRoutines = numCPU * 2
    /\ durationSecs \in Durations
    /\ testType = "cpu"
    /\ mpc = "report"
    /\ workload = "cpu"
    /\ testCases = <<>> /\ idx = 1 /\ results = <<>>
    /\ cpuResults \in UNION {[1..n -> ResultValues] : n \in 1..MaxResults}
    /\ memoryResults = <<>>
    /\ NoTrial
    /\ report = [t \in {"CPU", "Memory"} |-> NoReport]
    /\ bursts = 0
    /\ trialsRun = [t \in {"cpu", "memory"} |-> <<>>]

\* main.go 87: bench.printResults(cpuResults, "CPU")
CallPrintResults ==
    /\ mpc = "report"
    /\ report' = [report EXCEPT !["CPU"] = printResults(cpuResults, numCPU)]
    /\ mpc' = "reported"
    /\ UNCHANGED <<cfgVars, trialVars, workload, testCases, idx, results,
                   cpuResults, memoryResults, bursts, trialsRun>>

SpecReport == ReportInit /\ [][CallPrintResults]_vars

\* ---------------------------------------------------------- properties
TrialWorkers == 1..numGoroutines
AllWorkersDone == \A w \in TrialWorkers : wpc[w] = "done"

\* C1: exact accounting.  The total a trial returns (finalOps, and TotalOps
\* of the result built from it) is the sum over the trial's workers of the
\* kernel operations each completed.
C1_ExactAccounting ==
    mpc = "return" =>
        /\ finalOps = SumTo(opsDone, numGoroutines)
        /\ TrialResult.TotalOps = SumTo(opsDone, numGoroutines)

\* A two-worker trial returns after both workers completed operations.
C1_Witness ==
    /\ mpc = "return"
    /\ numGoroutines = 2
    /\ opsDone[1] > 0 /\ opsDone[2] > 0
    /\ finalOps = opsDone[1] + opsDone[2]

\* C2: stop barrier.  The final read of the shared counter happens only
\* after every worker of the trial has flushed and terminated, and no
\* worker adds to the counter after the read: the counter still is what
\* was read when the trial returns.
C2_StopBarrier ==
    /\ mpc \in {"load", "return"} => launched = numGoroutines /\ AllWorkersDone
    /\ mpc = "return" => totalOps = finalOps

\* The runner is about to read after two workers flushed.
C2_Witness ==
    /\ mpc = "load"
    /\ numGoroutines = 2
    /\ AllWorkersDone
    /\ totalOps > 0

\* C3: broadcast stop and termination.  Once the runner has closed the
\* stop channel, under fair scheduling every worker of the trial
\* terminates and the runner passes the barrier and is about to return
\* the result.
C3_StopTerminates ==
    (mpc = "wait" /\ stop) ~> (mpc = "return" /\ AllWorkersDone)

\* A trial of two workers got past the barrier: both observed the one stop.
C3_Witness ==
    /\ mpc = "return"
    /\ numGoroutines = 2
    /\ stop
    /\ AllWorkersDone

\* C4: monotonic counter.  Within a trial no step decreases the shared
\* counter (a step out of "loop" starts the next trial with a new counter).
C4_Monotonic == [][mpc # "loop" => totalOps' >= totalOps]_vars

\* The counter grew by a batch while the trial was running.
C4_Witness ==
    /\ mpc \in {"launch", "sleep", "close"}
    /\ ~stop
    /\ totalOps = Batch

\* C5: single-core sweep.  On a host with one core (maxRoutines 2) the
\* sweep is <<1>> or <<1, 2>>: the value 1 appears exactly once.
C5_SingleCoreSweep ==
    (numCPU = 1 /\ maxRoutines = 2 /\ mpc = "loop") =>
        testCases \in {<<1>>, <<1, 2>>}

\* C6: no duplicate trials.  The worker counts of the trials run for one
\* workload are pairwise distinct.
C6_NoDuplicateTrials ==
    \A t \in {"cpu", "memory"} :
        \A i, j \in 1..Len(trialsRun[t]) :
            i # j => trialsRun[t][i] # trialsRun[t][j]

\* C7: sweep contents.  With at least two cores c and maxRoutines = 2c,
\* getTestCases returns <<1, c/2, c, c + c/2, 2c>> (integer division).
C7_SweepContents ==
    (mpc = "swept" /\ numCPU >= 2 /\ maxRoutines = 2 * numCPU) =>
        testCases = <<1, numCPU \div 2, numCPU, numCPU + (numCPU \div 2),
                      2 * numCPU>>

\* The sweep of a three-core host, where the integer division rounds.
C7_Witness ==
    /\ mpc = "swept"
    /\ numCPU = 3
    /\ maxRoutines = 6
    /\ testCases = <<1, 1, 3, 4, 6>>

\* best is the first trial of rs with the maximal OpsPerSecond.
IsFirstMax(rs, best) ==
    \E i \in 1..Len(rs) :
        /\ rs[i] = best
        /\ \A j \in 1..Len(rs) : ~FGt(rs[j].OpsPerSecond, best.OpsPerSecond)
        /\ \A j \in 1..(i - 1) : FGt(best.OpsPerSecond, rs[j].OpsPerSecond)

\* C8: best-configuration selection.  The configuration reported as
\* optimal is a trial of the result set with the maximal OpsPerSecond,
\* the first such in sweep order; also when all OpsPerSecond are 0.
C8_BestSelection ==
    /\ report["CPU"].printed => IsFirstMax(cpuResults, report["CPU"].best)
    /\ report["Memory"].printed =>
            IsFirstMax(memoryResults, report["Memory"].best)

HasSingle(rs) == \E i \in 1..Len(rs) : rs[i].Goroutines = 1

\* C9: speedup baseline.  printResults reports a speedup exactly when the
\* result set has a trial with worker count 1, and then it is the best
\* OpsPerSecond divided by that of such a trial; the best configuration is
\* reported either way.
C9_SpeedupBaseline ==
    mpc = "reported" =>
        /\ report["CPU"].printed
        /\ report["CPU"].speedupShown <=> HasSingle(cpuResults)
        /\ report["CPU"].speedupShown =>
              \E i \in 1..Len(cpuResults) :
                 /\ cpuResults[i].Goroutines = 1
                 /\ report["CPU"].speedup =
                       FDiv(report["CPU"].best.OpsPerSecond,
                            cpuResults[i].OpsPerSecond)

\* A result set without a single-worker trial: the best is reported, the
\* speedup is not.
C9_Witness ==
    /\ mpc = "reported"
    /\ ~HasSingle(cpuResults)
    /\ report["CPU"].printed
    /\ report["CPU"].best.Goroutines > 1
    /\ ~report["CPU"].speedupShown

\* C10: invalid duration.  With a test duration <= 0 no trial is started
\* and no worker is launched.
C10_InvalidDuration ==
    durationSecs <= 0 =>
        /\ trialsRun["cpu"] = <<>> /\ trialsRun["memory"] = <<>>
        /\ launched = 0

\* C11: unrecognized selector.  When -t is none of cpu, memory, both, the
\* run reports a configuration error instead of ending like a normal run,
\* and no trial of either workload is started.
C11_UnknownSelector ==
    testType \notin {"cpu", "memory", "both"} =>
        /\ mpc # "exit"
        /\ trialsRun["cpu"] = <<>> /\ trialsRun["memory"] = <<>>

NoWorkerAlive == \A w \in Workers : wpc[w] \in {"none", "done"}

\* C12: sequential trials.  Whenever the main goroutine is outside a trial
\* (between trials, between the workloads, at the report) no worker is
\* alive, so every worker of a trial has terminated before the first
\* worker of the next trial is launched; the live workers all belong to
\* the one running trial.
C12_SequentialTrials ==
    /\ mpc \in {"main", "loop", "memory", "print", "exit"} => NoWorkerAlive
    /\ \A w \in Workers : wpc[w] \notin {"none", "done"} =>
            /\ mpc \in {"launch", "sleep", "close", "wait"}
            /\ w <= launched /\ launched <= numGoroutines

\* The second trial of the memory sweep has launched its worker, after the
\* CPU sweep's two-worker trial.
C12_Witness ==
    /\ workload = "memory"
    /\ trialsRun["cpu"] = <<1, 1, 2>>
    /\ trialsRun["memory"] = <<1, 1>>
    /\ mpc = "launch"
    /\ launched = 1 /\ wpc[1] = "select"

Counts(rs) == [i \in 1..Len(rs) |-> rs[i].Goroutines]

\* C13: one result per test case.  The results so far are those of the
\* test cases tried so far, in order; a finished sweep hands main one
\* result per test case; and a step that extends the result list leaves
\* the earlier results as they were.
C13_OneResultPerCase ==
    /\ [](/\ mpc = "loop" =>
               /\ Len(results) = idx - 1
               /\ Counts(results) = SubSeq(testCases, 1, idx - 1)
          /\ mpc = "memory" => Counts(cpuResults) = testCases
          /\ (mpc = "print" /\ workload = "memory" /\ testType # "cpu") =>
               Counts(memoryResults) = testCases
          /\ mpc = "exit" =>
               /\ testType \in {"cpu", "both"} =>
                    Counts(cpuResults) = getTestCases(numCPU, maxRoutines)
               /\ testType \in {"memory", "both"} =>
                    Counts(memoryResults) = getTestCases(numCPU, maxRoutines))
    /\ [][mpc = "return" =>
            /\ Len(results') = Len(results) + 1
            /\ SubSeq(results', 1, Len(results)) = results]_vars

\* A finished sweep of three test cases with three results.
C13_Witness ==
    /\ mpc = "memory"
    /\ testCases = <<1, 1, 2>>
    /\ Len(cpuResults) = 3
    /\ cpuResults[3].Goroutines = 2
    /\ cpuResults[1].TotalOps > 0

Stopping == {"flush", "exit", "done"}

\* C14: flush once on stop.  A worker leaves its loop only by observing
\* the stop signal, which then has been broadcast; it adds its local count
\* to the shared total in one step, then terminates without another add;
\* from the observation on it completes no kernel operation and never
\* goes back to the loop.
C14_FlushOnce ==
    [][\A w \in Workers :
          /\ (wpc[w] \notin Stopping /\ wpc'[w] \in Stopping) =>
                wpc[w] = "select" /\ wpc'[w] = "flush" /\ stop
          /\ (wpc[w] = "flush" /\ wpc'[w] # "flush") =>
                /\ stop
                /\ wpc'[w] = "exit"
                /\ totalOps' = totalOps + localOps[w]
          /\ (wpc[w] = "exit" /\ wpc'[w] # "exit") =>
                wpc'[w] = "done" /\ totalOps' = totalOps
          /\ (wpc[w] \in Stopping /\ mpc # "loop") =>
                /\ wpc'[w] \in Stopping
                /\ opsDone'[w] = opsDone[w]
                /\ localOps'[w] = localOps[w]
          /\ (wpc[w] = "done" /\ mpc # "loop") => wpc'[w] = "done"]_vars

\* A worker has flushed a non-empty tail and terminated.
C14_Witness ==
    /\ stop
    /\ numGoroutines = 1
    /\ wpc[1] = "done"
    /\ localOps[1] > 0
    /\ totalOps = localOps[1]

Alive(w) == wpc[w] \notin {"none", "done"}

\* C15: batching.  At the stop check a worker's local counter is in
\* 0 .. threshold-1 (a multiple of 4 for the memory worker); a worker adds
\* to the shared counter while running only with its local counter at the
\* threshold, the add is exactly the threshold, and the subtraction that
\* follows leaves the local counter at 0.  The only other add is the flush.
C15_Batching ==
    /\ [](\A w \in Workers :
            /\ wpc[w] = "select" => localOps[w] \in 0..(Batch - 1)
            /\ wpc[w] \in {"add", "sub"} => localOps[w] = Batch
            /\ Alive(w) => localOps[w] % OpsPerPass = 0)
    /\ [][/\ \A w \in Workers :
                /\ (wpc[w] = "add" /\ wpc'[w] # "add") =>
                      wpc'[w] = "sub" /\ totalOps' = totalOps + Batch
                /\ (wpc[w] = "sub" /\ wpc'[w] # "sub") =>
                      wpc'[w] = "select" /\ localOps'[w] = 0
          /\ (mpc # "loop" /\ totalOps' # totalOps) =>
                \E w \in Workers :
                   \/ wpc[w] = "add" /\ localOps[w] = Batch /\ wpc'[w] = "sub"
                   \/ wpc[w] = "flush" /\ wpc'[w] = "exit"]_vars

\* A worker is back at the stop check after a batch: local counter 0, the
\* batch in the shared counter.
C15_Witness ==
    /\ ~stop
    /\ wpc[1] = "select"
    /\ localOps[1] = 0
    /\ opsDone[1] = Batch
    /\ totalOps = Batch

\* time.Sleep(b.duration) has been called in the running trial.
TimerStarted == mpc \in {"sleep", "close", "wait"}

\* C16 as claimed: the duration timer starts at trial start, before the
\* launching of the workers completes: wherever a worker of the trial is
\* already running, the timer is running.
C16_TimerFromTrialStart ==
    (mpc = "launch" /\ launched > 0) => TimerStarted

\* C16 amended: the duration timer starts only when the launch loop is
\* over, with every worker of the trial launched, and stop is closed only
\* after that sleep.
C16_TimerAfterLaunch ==
    /\ TimerStarted =>
          /\ launched = numGoroutines
          /\ \A w \in TrialWorkers : wpc[w] # "none"
    /\ mpc = "launch" => ~stop
    /\ (stop /\ mpc \in {"wait", "load", "return"}) => launched = numGoroutines

\* The sleep starts when a worker has already completed operations.
C16_Witness ==
    /\ mpc = "sleep"
    /\ numGoroutines = 2 /\ launched = 2
    /\ opsDone[1] > 0
    /\ ~stop

Last(t) == t[Len(t)]

Sweep == getTestCases(numCPU, maxRoutines)

Running == mpc \in {"launch", "sleep", "close"} /\ ~stop

\* C20 as claimed: in every state of a trial before the stop broadcast the
\* shared counter is a multiple of the threshold and understates the
\* operations completed by exactly the sum of the local counters, which is
\* at most workerCount x (threshold - 1).
C20_BurstGranularity ==
    Running =>
        /\ totalOps % Batch = 0
        /\ SumTo(opsDone, numGoroutines) - totalOps
              = SumTo(localOps, numGoroutines)
        /\ SumTo(localOps, numGoroutines) <= numGoroutines * (Batch - 1)

\* C20 amended: before the stop broadcast the shared counter is a multiple
\* of the threshold; it understates the operations completed by the sum of
\* the local counters less one threshold for each worker that has added a
\* batch and not yet subtracted it; a local counter is at most the
\* threshold, and at most threshold - 1 at the stop check.
C20_BurstGranularityAmended ==
    Running =>
        /\ totalOps % Batch = 0
        /\ SumTo(opsDone, numGoroutines) - totalOps
              = SumTo(localOps, numGoroutines)
                - Batch * Cardinality({w \in TrialWorkers : wpc[w] = "sub"})
        /\ \A w \in TrialWorkers :
              /\ localOps[w] <= Batch
              /\ wpc[w] = "select" => localOps[w] <= Batch - 1

\* A worker has added its batch and not yet subtracted it.
C20_Witness ==
    /\ Running
    /\ wpc[1] = "sub"
    /\ localOps[1] = Batch
    /\ opsDone[1] = Batch
    /\ totalOps = Batch

=============================================================================
